---- MODULE Spec2Model ----
(***************************************************************************)
(* A model of switchyard/lib/topo/topobuild.py: Interface, Node and        *)
(* Topology, with the networkx graph the Topology delegates to.            *)
(*                                                                         *)
(* Strings that the code builds or takes apart (node names, interface      *)
(* names, edge-attribute keys) are sequences of one-character strings, so  *)
(* that formatting, slicing and lexicographic sorting are computed.        *)
(* Python None is the empty sequence.  Node objects live in a heap and are *)
(* held by reference, as in Python: two graphs can hold the same object.   *)
(***************************************************************************)
EXTENDS Integers, Sequences, FiniteSets, TLC

VARIABLES topos, heap, result

vars == <<topos, heap, result>>

(***************************************************************************)
(* Bounds of the model.                                                    *)
(***************************************************************************)
\* nodes per topology built through addHost/addSwitch/addRouter
MaxNodes == 3
\* addLink calls per topology that get as far as creating interfaces
MaxLinks == 2
\* characters of a node name that addNodeLabelPrefix is still called on
MaxNameLen == 4

(***************************************************************************)
(* Values.                                                                 *)
(***************************************************************************)
None == <<>>

EmptyDict == [k \in {} |-> <<>>]

DictSet(d, key, val) == [k \in (DOMAIN d) \cup {key} |-> IF k = key THEN val ELSE d[k]]

DictDel(d, key) == [k \in (DOMAIN d) \ {key} |-> d[k]]

Range(s) == {s[i] : i \in DOMAIN s}

\* the characters the model uses, in code-point order
Alphabet ==
    <<" ",
      "0", "1", "2", "3", "4", "5", "6", "7", "8", "9",
      "A", "B", "N", "_",
      "a", "b", "c", "d", "e", "g", "h", "i", "l", "m", "n", "o", "p", "r",
      "s", "t", "x", "y", "z">>

Ord(c) == CHOOSE i \in DOMAIN Alphabet : Alphabet[i] = c

\* Python's < on str
RECURSIVE StrLess(_, _)
StrLess(a, b) ==
    IF a = <<>> THEN b # <<>>
    ELSE IF b = <<>> THEN FALSE
    ELSE IF Head(a) = Head(b) THEN StrLess(Tail(a), Tail(b))
    ELSE Ord(Head(a)) < Ord(Head(b))

\* Python's < on a 2-tuple of str
PairLess(p, q) == StrLess(p[1], q[1]) \/ (p[1] = q[1] /\ StrLess(p[2], q[2]))

\* sorted(S) for a set S of 2-tuples of str
RECURSIVE Sorted(_)
Sorted(S) ==
    IF S = {} THEN <<>>
    ELSE LET m == CHOOSE p \in S : \A q \in S \ {p} : PairLess(p, q)
         IN  <<m>> \o Sorted(S \ {m})

\* str(n) for a natural number n
RECURSIVE Str(_)
Str(n) ==
    IF n < 10 THEN <<Alphabet[n + 2]>>
    ELSE Str(n \div 10) \o <<Alphabet[(n % 10) + 2]>>

(***************************************************************************)
(* Interface.                                                              *)
(* A MAC is its six bytes, an IPv4 address or mask its four bytes.         *)
(***************************************************************************)
DefaultEthaddr == <<0, 0, 0, 0, 0, 0>>

DefaultIpaddr == <<0, 0, 0, 0>>

DefaultNetmask == <<255, 255, 255, 255>>

ethaddr_setter(value) == IF value = None THEN DefaultEthaddr ELSE value

ipaddr_setter(value) == IF value = None THEN DefaultIpaddr ELSE value

netmask_setter(value) == IF value = None THEN DefaultNetmask ELSE value

Interface(name, ethaddr, ipaddr, netmask) ==
    [name |-> name,
     ethaddr |-> ethaddr_setter(ethaddr),
     ipaddr |-> ipaddr_setter(ipaddr),
     netmask |-> netmask_setter(netmask)]

\* Interface.__str__, as its whitespace-separated components:
\* "<name> mac:<mac>" and, unless the address is 0.0.0.0, " ip:<ip>/<mask>"
Interface_str(intf) ==
    IF intf.ipaddr # DefaultIpaddr
    THEN <<[text |-> intf.name],
           [mac |-> intf.ethaddr],
           [ip |-> intf.ipaddr, mask |-> intf.netmask]>>
    ELSE <<[text |-> intf.name], [mac |-> intf.ethaddr]>>

(***************************************************************************)
(* Node.                                                                   *)
(***************************************************************************)
\* the body of the loop of Node.__init__: one serialized interface
ParseInterface(ifname, ifcomponents) ==
    LET mac == ifcomponents[2].mac
        ipmask == IF Len(ifcomponents) > 2
                  THEN <<ifcomponents[3].ip, ifcomponents[3].mask>>
                  ELSE <<None, None>>
    IN  Interface(ifname, mac, ipmask[1], ipmask[2])

\* Node.__init__(**kwargs) of class cls
Node(cls, kwargs) ==
    [cls |-> cls,
     ifnum |-> 0,
     interfaces |->
        IF "interfaces" \in DOMAIN kwargs
        THEN [ifname \in DOMAIN kwargs.interfaces |->
                ParseInterface(ifname, kwargs.interfaces[ifname])]
        ELSE EmptyDict]

\* Node.addInterface: the node after the call and the name returned
addInterface(node, ethaddr) ==
    LET ifname == <<"e", "t", "h">> \o Str(node.ifnum)
    IN  [node |-> [node EXCEPT
                     !.ifnum = @ + 1,
                     !.interfaces = DictSet(@, ifname, Interface(ifname, ethaddr, None, None))],
         ifname |-> ifname]

\* Node.asDict
asDict(node) ==
    [nodetype |-> node.cls,
     interfaces |-> [ifname \in DOMAIN node.interfaces |-> Interface_str(node.interfaces[ifname])]]

(***************************************************************************)
(* The networkx graph: G.graph['name'], the node dictionary G.node in      *)
(* insertion order, and the adjacency G.adj.  An undirected edge is keyed  *)
(* by the set of its endpoints; its value is the edge-attribute dict,      *)
(* which both directions G[u][v] and G[v][u] share.                        *)
(***************************************************************************)
NoGraph == [absent |-> TRUE]

Graph(name) == [name |-> name, nodes |-> <<>>, node |-> EmptyDict, adj |-> EmptyDict]

has_node(G, n) == n \in DOMAIN G.node

add_node(G, n) ==
    IF has_node(G, n) THEN G
    ELSE [G EXCEPT !.nodes = Append(@, n), !.node = DictSet(@, n, EmptyDict)]

has_edge(G, u, v) == {u, v} \in DOMAIN G.adj

add_edge(G, u, v) ==
    LET G1 == add_node(add_node(G, u), v)
    IN  IF has_edge(G1, u, v) THEN G1
        ELSE [G1 EXCEPT !.adj = DictSet(@, {u, v}, EmptyDict)]

NodeIndex(G, n) == CHOOSE i \in DOMAIN G.nodes : G.nodes[i] = n

\* G.edges(data=False): each edge once, reported from its endpoint that
\* comes first in the node dictionary
edges(G) ==
    {p \in Range(G.nodes) \X Range(G.nodes) :
        /\ {p[1], p[2]} \in DOMAIN G.adj
        /\ NodeIndex(G, p[1]) <= NodeIndex(G, p[2])}

(***************************************************************************)
(* switchyard.lib.topo.util: the capacity and delay strings an addLink     *)
(* call can be given, and their canonical values.                          *)
(***************************************************************************)
Unparseable == <<>>

Capacities == {"100mbps", "1gbps", "fast"}

Delays == {"10ms", "soon"}

unhumanize_capacity(capacity) ==
    CASE capacity = "100mbps" -> <<"100000000">>
      [] capacity = "1gbps" -> <<"1000000000">>
      [] OTHER -> Unparseable

unhumanize_delay(delay) ==
    CASE delay = "10ms" -> <<"0.01">>
      [] OTHER -> Unparseable

humanize_capacity(capbits) ==
    CASE capbits = <<"100000000">> -> "100 Mb/s"
      [] capbits = <<"1000000000">> -> "1 Gb/s"
      [] OTHER -> "?"

humanize_delay(delaysec) ==
    CASE delaysec = <<"0.01">> -> "10 ms"
      [] OTHER -> "?"

(***************************************************************************)
(* Topology.                                                               *)
(***************************************************************************)
TopoIds == {1, 2, 3}

NoTopo == [absent |-> TRUE]

DefaultName ==
    <<"N", "o", " ", "n", "a", "m", "e", " ",
      "t", "o", "p", "o", "l", "o", "g", "y">>

LABEL == <<"l", "a", "b", "e", "l">>

CAPACITY == <<"c", "a", "p", "a", "c", "i", "t", "y">>

DELAY == <<"d", "e", "l", "a", "y">>

\* Topology.__init__; "if nxgraph" is false for no graph and for a graph
\* with no nodes
Topology(name, nxgraph, auto_macs) ==
    [nxgraph |-> IF nxgraph # NoGraph /\ Len(nxgraph.nodes) > 0
                 THEN nxgraph ELSE Graph(name),
     hnum |-> 0,
     snum |-> 0,
     rnum |-> 0,
     auto_macs |-> auto_macs,
     ifnum |-> 1]

\* the node object a graph node holds
Deref(H, ref) == H[ref.t][ref.i]

HeapSet(H, ref, obj) == [H EXCEPT ![ref.t][ref.i] = obj]

nodeobj(H, G, n) == Deref(H, G.node[n].nodeobj)

\* Topology.__getnodes; "if typefilter" is false for no filter, written ""
getnodes(T, typefilter) ==
    IF typefilter # ""
    THEN {n \in Range(T.nxgraph.nodes) : T.nxgraph.node[n].type = typefilter}
    ELSE Range(T.nxgraph.nodes)

\* the first k >= n for which prefix + str(k) names no node: the loop of
\* addHost, addSwitch and addRouter
NextAutoNumNoSkip(G, prefix, n) == n

RECURSIVE NextAutoNum(_, _, _)
NextAutoNum(G, prefix, n) ==
    IF has_node(G, prefix \o Str(n)) THEN NextAutoNum(G, prefix, n + 1) ELSE n

\* Topology.__addNode on topology t: raises if the name is taken, else
\* adds the node with a new object of class cls
addNode(t, T, H, name, cls) ==
    IF name \in getnodes(T, "")
    THEN [status |-> "error", T |-> T, H |-> H]
    ELSE LET ref == [t |-> t, i |-> Len(H[t]) + 1]
             G1 == add_node(T.nxgraph, name)
             nd == [label |-> name, nodeobj |-> ref, type |-> cls]
         IN  [status |-> "ok",
              T |-> [T EXCEPT !.nxgraph = [G1 EXCEPT !.node[name] = nd]],
              H |-> [H EXCEPT ![t] = Append(@, Node(cls, EmptyDict))]]

\* the names a caller passes to addHost/addSwitch/addRouter: none, or a
\* name of its own (here one that an auto-generated name can equal)
ExplicitNames == {<<"h", "0">>}

\* addHost, addSwitch, addRouter share this body; ctr is the counter's field
addTyped(t, name, cls, prefix, ctr, op) ==
    LET T == topos[t]
        k == NextAutoNum(T.nxgraph, prefix, T[ctr])
        nm == IF name = None THEN prefix \o Str(k) ELSE name
        T1 == IF name = None THEN [T EXCEPT ![ctr] = k + 1] ELSE T
        r == addNode(t, T1, heap, nm, cls)
    IN  /\ topos[t] # NoTopo
        /\ Len(T.nxgraph.nodes) < MaxNodes
        /\ topos' = [topos EXCEPT ![t] = r.T]
        /\ heap' = r.H
        /\ result' = [op |-> op, t |-> t, status |-> r.status,
                      ret |-> IF r.status = "ok" THEN nm ELSE None]

addHost(t, name) == addTyped(t, name, "Host", <<"h">>, "hnum", "addHost")

addSwitch(t, name) == addTyped(t, name, "Switch", <<"s">>, "snum", "addSwitch")

addRouter(t, name) == addTyped(t, name, "Router", <<"r">>, "rnum", "addRouter")

\* '{:012x}'.format(n), cut into two-digit groups: the k low bytes of n
RECURSIVE MacBytes(_, _)
MacBytes(n, k) == IF k = 0 THEN <<>> ELSE MacBytes(n \div 256, k - 1) \o <<n % 256>>

MacAddr(n) == MacBytes(n, 6)

autoMacsOneCounterValue(T) ==
    IF T.auto_macs
    THEN [macs |-> <<MacAddr(T.ifnum), MacAddr(T.ifnum)>>, ifnum |-> T.ifnum + 1]
    ELSE [macs |-> <<None, None>>, ifnum |-> T.ifnum]

\* lines 275-281 of addLink: the two MACs and the counter after them
autoMacs(T) ==
    IF T.auto_macs
    THEN [macs |-> <<MacAddr(T.ifnum), MacAddr(T.ifnum + 1)>>, ifnum |-> T.ifnum + 2]
    ELSE [macs |-> <<None, None>>, ifnum |-> T.ifnum]

\* Topology.addLink on topology T with heap H: the outcome, with the
\* topology and heap it leaves
addLinkRun(T, H, node1, node2, capacity, delay) ==
    LET G == T.nxgraph IN
    IF ~has_node(G, node1) \/ ~has_node(G, node2)
    THEN [status |-> "error", T |-> T, H |-> H]
    ELSE LET am == autoMacs(T)
             mac0 == am.macs[1]
             mac1 == am.macs[2]
             T1 == [T EXCEPT !.ifnum = am.ifnum]
             ref1 == G.node[node1].nodeobj
             r1 == addInterface(Deref(H, ref1), mac0)
             H1 == HeapSet(H, ref1, r1.node)
             ref2 == G.node[node2].nodeobj
             r2 == addInterface(Deref(H1, ref2), mac1)
             H2 == HeapSet(H1, ref2, r2.node)
             G1 == add_edge(G, node1, node2)
             capbits == unhumanize_capacity(capacity)
             delaysec == unhumanize_delay(delay)
             e == {node1, node2}
             d1 == DictSet(G1.adj[e], LABEL,
                           <<humanize_capacity(capbits), humanize_delay(delaysec)>>)
             d2 == DictSet(d1, CAPACITY, capbits)
             d3 == DictSet(d2, DELAY, delaysec)
             d4 == DictSet(d3, node1, r1.ifname)
             d5 == DictSet(d4, node2, r2.ifname)
         IN  IF capbits = Unparseable \/ delaysec = Unparseable
             THEN [status |-> "error", T |-> [T1 EXCEPT !.nxgraph = G1], H |-> H2]
             ELSE [status |-> "ok",
                   T |-> [T1 EXCEPT !.nxgraph = [G1 EXCEPT !.adj[e] = d5]],
                   H |-> H2]

\* the node names a caller passes to addLink: the topology's, or one that
\* names no node
UnknownNames == {<<"z">>}

\* the interfaces addLink calls have created on the nodes of T
RECURSIVE SumIfnum(_, _, _)
SumIfnum(T, H, ns) ==
    IF ns = {} THEN 0
    ELSE LET n == CHOOSE x \in ns : TRUE
         IN  nodeobj(H, T.nxgraph, n).ifnum + SumIfnum(T, H, ns \ {n})

\* room for one more addLink call within the model's bound
LinkRoom(T, H, node1, node2) ==
    ({node1, node2} \subseteq DOMAIN T.nxgraph.node)
        => SumIfnum(T, H, DOMAIN T.nxgraph.node) < 2 * MaxLinks

addLink(t, node1, node2, capacity, delay) ==
    /\ topos[t] # NoTopo
    /\ LinkRoom(topos[t], heap, node1, node2)
    /\ \E r \in {addLinkRun(topos[t], heap, node1, node2, capacity, delay)} :
        /\ topos' = [topos EXCEPT ![t] = r.T]
        /\ heap' = r.H
        /\ result' = [op |-> "addLink", t |-> t, status |-> r.status, ret |-> None]

(***************************************************************************)
(* assignIPAddresses.  ipaddress.IPv4Network(prefix, strict=False) of a    *)
(* prefix of length at most 30: hosts() yields network+1 .. broadcast-1.   *)
(***************************************************************************)
RECURSIVE Pow2(_)
Pow2(n) == IF n = 0 THEN 1 ELSE 2 * Pow2(n - 1)

IPToInt(a) == ((a[1] * 256 + a[2]) * 256 + a[3]) * 256 + a[4]

IntToIP(n) == <<(n \div 16777216) % 256, (n \div 65536) % 256, (n \div 256) % 256, n % 256>>

Min(a, b) == IF a < b THEN a ELSE b

Max(a, b) == IF a > b THEN a ELSE b

\* the prefixes a caller passes: none, or address/length
Prefixes == {None, <<10, 0, 0, 5, 30>>}

\* lines 327-330: the subnet of a prefix, 10.0.0.0/8 when none is given
IPv4Network(prefix) ==
    LET p == IF prefix = None THEN <<10, 0, 0, 0, 8>> ELSE prefix
        size == Pow2(32 - p[5])
        addr == IPToInt(SubSeq(p, 1, 4))
    IN  [network |-> addr - (addr % size),
         nhosts |-> size - 2,
         netmask |-> [i \in 1..4 |-> 256 - Pow2(8 - Min(8, Max(0, p[5] - 8 * (i - 1))))]]

nodes_to_numberWithSwitches(T) == getnodes(T, "")

\* line 336
nodes_to_number(T) == getnodes(T, "Host") \cup getnodes(T, "Router")

\* the endpoints assignIPAddresses visits, in order: for u,v in
\* sorted(self.links): for node in [u,v]
RECURSIVE Visits(_)
Visits(links) ==
    IF links = <<>> THEN <<>>
    ELSE <<[edge |-> {Head(links)[1], Head(links)[2]}, node |-> Head(links)[1]],
           [edge |-> {Head(links)[1], Head(links)[2]}, node |-> Head(links)[2]]>>
         \o Visits(Tail(links))

\* the loop of assignIPAddresses from visit number i on, k addresses drawn
\* so far: KeyError for an endpoint the link data or the node does not
\* know, StopIteration when the subnet's hosts are used up
RECURSIVE assignLoop(_, _, _, _, _, _)
assignLoop(T, H, visits, i, k, subnet) ==
    IF i > Len(visits) THEN [status |-> "ok", H |-> H]
    ELSE LET node == visits[i].node
             linkdata == T.nxgraph.adj[visits[i].edge]
             ref == T.nxgraph.node[node].nodeobj
         IN  IF node \notin nodes_to_number(T)
             THEN assignLoop(T, H, visits, i + 1, k, subnet)
             ELSE IF node \notin DOMAIN linkdata
             THEN [status |-> "error", H |-> H]
             ELSE IF linkdata[node] \notin DOMAIN Deref(H, ref).interfaces
             THEN [status |-> "error", H |-> H]
             ELSE IF k >= subnet.nhosts
             THEN [status |-> "error", H |-> H]
             ELSE assignLoop(T,
                             [H EXCEPT ![ref.t][ref.i].interfaces[linkdata[node]] =
                                [@ EXCEPT !.ipaddr = ipaddr_setter(IntToIP(subnet.network + k + 1)),
                                          !.netmask = netmask_setter(subnet.netmask)]],
                             visits, i + 1, k + 1, subnet)

assignIPAddressesRun(T, H, prefix) ==
    assignLoop(T, H, Visits(Sorted(edges(T.nxgraph))), 1, 0, IPv4Network(prefix))

assignIPAddresses(t, prefix) ==
    /\ topos[t] # NoTopo
    /\ \E r \in {assignIPAddressesRun(topos[t], heap, prefix)} :
        /\ heap' = r.H
        /\ result' = [op |-> "assignIPAddresses", t |-> t, status |-> r.status, ret |-> None]
    /\ UNCHANGED topos

(***************************************************************************)
(* setInterfaceAddresses.                                                  *)
(***************************************************************************)
\* the arguments a caller passes: each address is given or left out
Macs == {None, <<2, 0, 0, 0, 0, 1>>}

Ips == {None, <<10, 9, 9, 9>>}

Netmasks == {None, <<255, 255, 255, 0>>}

InterfaceArgs == {<<"e", "t", "h", "0">>, <<"e", "t", "h", "1">>}

\* a mutation of setInterfaceAddresses: it assigns all three fields, the
\* omitted ones included
setInterfaceAddressesRunAllFields(T, H, node, interface, mac, ip, netmask) ==
    IF ~has_node(T.nxgraph, node) THEN [status |-> "error", H |-> H]
    ELSE LET ref == T.nxgraph.node[node].nodeobj IN
         IF interface \notin DOMAIN Deref(H, ref).interfaces
         THEN [status |-> "error", H |-> H]
         ELSE [status |-> "ok",
               H |-> [H EXCEPT ![ref.t][ref.i].interfaces[interface] =
                        [@ EXCEPT
                           !.ethaddr = ethaddr_setter(mac),
                           !.ipaddr = ipaddr_setter(ip),
                           !.netmask = netmask_setter(netmask)]]]

setInterfaceAddressesRun(T, H, node, interface, mac, ip, netmask) ==
    IF ~has_node(T.nxgraph, node) THEN [status |-> "error", H |-> H]
    ELSE LET ref == T.nxgraph.node[node].nodeobj IN
         IF interface \notin DOMAIN Deref(H, ref).interfaces
         THEN [status |-> "error", H |-> H]
         ELSE [status |-> "ok",
               H |-> [H EXCEPT ![ref.t][ref.i].interfaces[interface] =
                        [@ EXCEPT
                           !.ethaddr = IF mac # None THEN ethaddr_setter(mac) ELSE @,
                           !.ipaddr = IF ip # None THEN ipaddr_setter(ip) ELSE @,
                           !.netmask = IF netmask # None THEN netmask_setter(netmask) ELSE @]]]

setInterfaceAddresses(t, node, interface, mac, ip, netmask) ==
    /\ topos[t] # NoTopo
    /\ \E r \in {setInterfaceAddressesRun(topos[t], heap, node, interface, mac, ip, netmask)} :
        /\ heap' = r.H
        /\ result' = [op |-> "setInterfaceAddresses", t |-> t, status |-> r.status,
                      ret |-> None, args |-> <<node, interface, mac, ip, netmask>>]
    /\ UNCHANGED topos

\* Topology.getInterfaceAddresses: (ethaddr, ipaddr, netmask) of one interface
getInterfaceAddressesRun(T, H, node, interface) ==
    IF ~has_node(T.nxgraph, node) THEN [status |-> "error", ret |-> None]
    ELSE LET obj == nodeobj(H, T.nxgraph, node) IN
         IF interface \notin DOMAIN obj.interfaces
         THEN [status |-> "error", ret |-> None]
         ELSE [status |-> "ok",
               ret |-> <<obj.interfaces[interface].ethaddr,
                         obj.interfaces[interface].ipaddr,
                         obj.interfaces[interface].netmask>>]

getInterfaceAddresses(t, node, interface) ==
    /\ topos[t] # NoTopo
    /\ \E r \in {getInterfaceAddressesRun(topos[t], heap, node, interface)} :
        result' = [op |-> "getInterfaceAddresses", t |-> t, status |-> r.status,
                   ret |-> r.ret, args |-> <<node, interface>>]
    /\ UNCHANGED <<topos, heap>>

(***************************************************************************)
(* getEdge, getLink and getLinkInterfaces.                                 *)
(***************************************************************************)
\* a mutation of getEdge: an adjacency that holds an edge only under the
\* endpoint it was added from
getEdgeOneDirection(G, node1, node2) ==
    IF <<node1, node2>> \in edges(G)
    THEN [status |-> "ok", ret |-> G.adj[{node1, node2}]]
    ELSE [status |-> "error", ret |-> None]

\* Topology.getEdge: self.__nxgraph[node1][node2], a KeyError when node1 is
\* no node or node2 is not its neighbour
getEdge(G, node1, node2) ==
    IF has_node(G, node1) /\ has_edge(G, node1, node2)
    THEN [status |-> "ok", ret |-> G.adj[{node1, node2}]]
    ELSE [status |-> "error", ret |-> None]

\* Topology.getLink
getLinkRun(T, node1, node2) == getEdge(T.nxgraph, node1, node2)

getLink(t, node1, node2) ==
    /\ topos[t] # NoTopo
    /\ \E r \in {getLinkRun(topos[t], node1, node2)} :
        result' = [op |-> "getLink", t |-> t, status |-> r.status,
                   ret |-> r.ret, args |-> <<node1, node2>>]
    /\ UNCHANGED <<topos, heap>>

\* Topology.getLinkInterfaces: line 355 reads linkdata[node1] twice
getLinkInterfacesRun(T, node1, node2) ==
    LET linkdata == getLinkRun(T, node1, node2) IN
    IF linkdata.status # "ok" THEN [status |-> "error", ret |-> None]
    ELSE IF node1 \notin DOMAIN linkdata.ret THEN [status |-> "error", ret |-> None]
    ELSE [status |-> "ok", ret |-> <<linkdata.ret[node1], linkdata.ret[node1]>>]

getLinkInterfaces(t, node1, node2) ==
    /\ topos[t] # NoTopo
    /\ \E r \in {getLinkInterfacesRun(topos[t], node1, node2)} :
        result' = [op |-> "getLinkInterfaces", t |-> t, status |-> r.status,
                   ret |-> r.ret, args |-> <<node1, node2>>]
    /\ UNCHANGED <<topos, heap>>

(***************************************************************************)
(* serialize and unserialize.  The JSON text is modelled by the document   *)
(* it encodes: json_graph.node_link_data of the graph, each node object    *)
(* encoded by Encoder.default, that is by asDict.                          *)
(***************************************************************************)
serialize(T, H) ==
    LET G == T.nxgraph IN
    [name |-> G.name,
     nodes |-> [i \in DOMAIN G.nodes |->
                  [id |-> G.nodes[i],
                   label |-> G.node[G.nodes[i]].label,
                   type |-> G.node[G.nodes[i]].type,
                   nodeobj |-> asDict(nodeobj(H, G, G.nodes[i]))]],
     links |-> {[source |-> NodeIndex(G, p[1]) - 1,
                 target |-> NodeIndex(G, p[2]) - 1,
                 data |-> G.adj[{p[1], p[2]}]] : p \in edges(G)}]

\* json_graph.node_link_graph: every key of a node but 'id' is a node
\* attribute
node_link_graph(topod) ==
    LET ids == [i \in DOMAIN topod.nodes |-> topod.nodes[i].id] IN
    [name |-> topod.name,
     nodes |-> ids,
     node |-> [n \in Range(ids) |->
                 LET d == topod.nodes[CHOOSE i \in DOMAIN ids : ids[i] = n]
                 IN  [k \in (DOMAIN d) \ {"id"} |-> d[k]]],
     adj |-> [e \in {{ids[l.source + 1], ids[l.target + 1]} : l \in topod.links} |->
                (CHOOSE l \in topod.links : {ids[l.source + 1], ids[l.target + 1]} = e).data]]

NodeClasses == {"Host", "Switch", "Router"}

\* the node types eval (line 310) turns into a class that line 311 can
\* call: the three node classes and their base class Node; any other name
\* read here is undefined
EvalClasses == NodeClasses \cup {"Node"}

\* the keyword arguments unserialize builds a node object from (line 311)
NodeKwargsFromNodeobj(ndict) == ndict.nodeobj

NodeKwargs(ndict) == ndict

\* Topology.unserialize into topology t: the loop of lines 306-311 makes one
\* node object per node, in node order
unserializeRun(t, H, topod) ==
    LET G == node_link_graph(topod)
        bad == {n \in Range(G.nodes) :
                  \/ "nodeobj" \notin DOMAIN G.node[n]
                  \/ "nodetype" \notin DOMAIN G.node[n].nodeobj
                  \/ G.node[n].nodeobj.nodetype \notin EvalClasses}
        base == Len(H[t])
        objs == [i \in DOMAIN G.nodes |->
                   Node(G.node[G.nodes[i]].nodeobj.nodetype, NodeKwargs(G.node[G.nodes[i]]))]
        G1 == [G EXCEPT !.node =
                 [n \in DOMAIN G.node |->
                    [G.node[n] EXCEPT !.nodeobj = [t |-> t, i |-> base + NodeIndex(G, n)]]]]
    IN  IF bad # {} THEN [status |-> "error", T |-> NoTopo, H |-> H]
        ELSE [status |-> "ok",
              T |-> Topology(DefaultName, G1, TRUE),
              H |-> [H EXCEPT ![t] = @ \o objs]]

\* t2 = Topology.unserialize(t1.serialize())
roundTrip(t1, t2) ==
    /\ topos[t1] # NoTopo
    /\ topos[t2] = NoTopo
    /\ \E r \in {unserializeRun(t2, heap, serialize(topos[t1], heap))} :
        /\ topos' = [topos EXCEPT ![t2] = r.T]
        /\ heap' = r.H
        /\ result' = [op |-> "unserialize", t |-> t2, status |-> r.status, ret |-> None]

\* what a serialized node may lack or carry wrongly
Damages == {"no nodeobj", "no nodetype", "no interfaces", "type Node", "type Foo"}

DropKey(d, key) == [k \in (DOMAIN d) \ {key} |-> d[k]]

\* the document topod with its i-th node damaged
Damage(topod, i, damage) ==
    LET d == topod.nodes[i]
        e == IF damage = "no nodeobj" THEN DropKey(d, "nodeobj")
             ELSE IF damage = "no nodetype"
                  THEN [k \in DOMAIN d |->
                          IF k = "nodeobj" THEN DropKey(d.nodeobj, "nodetype") ELSE d[k]]
             ELSE IF damage = "no interfaces"
                  THEN [k \in DOMAIN d |->
                          IF k = "nodeobj" THEN DropKey(d.nodeobj, "interfaces") ELSE d[k]]
             ELSE IF damage = "type Node"
                  THEN [d EXCEPT !.nodeobj.nodetype = "Node"]
             ELSE [d EXCEPT !.nodeobj.nodetype = "Foo"]
    IN  [topod EXCEPT !.nodes = [j \in DOMAIN topod.nodes |->
                                   IF j = i THEN e ELSE topod.nodes[j]]]

\* t2 = Topology.unserialize(text), the text being t1.serialize() with its
\* i-th node damaged
unserializeDamaged(t1, t2, i, damage) ==
    /\ topos[t1] # NoTopo
    /\ topos[t2] = NoTopo
    /\ i \in DOMAIN topos[t1].nxgraph.nodes
    /\ \E r \in {unserializeRun(t2, heap, Damage(serialize(topos[t1], heap), i, damage))} :
        /\ topos' = [topos EXCEPT ![t2] = r.T]
        /\ heap' = r.H
        /\ result' = [op |-> "unserialize", t |-> t2, status |-> r.status,
                      ret |-> None, args |-> <<i, damage>>]

(***************************************************************************)
(* __relabel_graph and union.                                              *)
(***************************************************************************)
\* u[len(prefix)+1:]
StripPrefix(prefix, u) == SubSeq(u, Len(prefix) + 2, Len(u))

\* the loop of lines 391-395 over the edges es of graph G
RECURSIVE relabelEdges(_, _, _)
relabelEdges(G, prefix, es) ==
    IF es = <<>> THEN [status |-> "ok", G |-> G]
    ELSE LET u == Head(es)[1]
             v == Head(es)[2]
             d == G.adj[{u, v}]
             uold == StripPrefix(prefix, u)
             vold == StripPrefix(prefix, v)
             d1 == DictDel(DictSet(d, u, d[uold]), uold)
             d2 == DictDel(DictSet(d1, v, d1[vold]), vold)
         IN  IF uold \notin DOMAIN d THEN [status |-> "error", G |-> G]
             ELSE IF vold \notin DOMAIN d1 THEN [status |-> "error", G |-> G]
             ELSE relabelEdges([G EXCEPT !.adj[{u, v}] = d2], prefix, Tail(es))

\* '{}_{}'.format(prefix, name) writes a prefix of None as 'None'
Format(prefix) == IF prefix = None THEN <<"N", "o", "n", "e">> ELSE prefix

\* Topology.__relabel_graph: a relabelled copy of G; the node objects are
\* not copied.  With a prefix of None the edge loop fails at len(prefix)
\* on its first edge
relabel_graph(G, prefix) ==
    LET renamer(name) == Format(prefix) \o <<"_">> \o name
        H0 == [name |-> G.name,
               nodes |-> [i \in DOMAIN G.nodes |-> renamer(G.nodes[i])],
               node |-> [n \in {renamer(x) : x \in DOMAIN G.node} |->
                           [G.node[StripPrefix(Format(prefix), n)] EXCEPT !.label = n]],
               adj |-> [e \in {{renamer(x) : x \in f} : f \in DOMAIN G.adj} |->
                          G.adj[{StripPrefix(Format(prefix), x) : x \in e}]]]
    IN  IF prefix = None /\ edges(H0) # {} THEN [status |-> "error", G |-> G]
        ELSE relabelEdges(H0, prefix, Sorted(edges(H0)))

\* the prefixes a caller passes to addNodeLabelPrefix: none, or one of its own
PrefixArgs == {None, <<"p">>}

\* Topology.addNodeLabelPrefix: with copy set, line 408 reads the attribute
\* deepcopy of the argument copy, a bool, which has none
addNodeLabelPrefixRun(T, prefix, copy) ==
    LET r == relabel_graph(T.nxgraph, prefix) IN
    IF r.status # "ok" THEN [status |-> "error", T |-> T]
    ELSE IF copy THEN [status |-> "error", T |-> T]
    ELSE [status |-> "ok", T |-> [T EXCEPT !.nxgraph = r.G]]

addNodeLabelPrefix(t, prefix, copy) ==
    /\ topos[t] # NoTopo
    /\ \A n \in DOMAIN topos[t].nxgraph.node : Len(n) <= MaxNameLen
    /\ \E r \in {addNodeLabelPrefixRun(topos[t], prefix, copy)} :
        /\ topos' = [topos EXCEPT ![t] = r.T]
        /\ result' = [op |-> "addNodeLabelPrefix", t |-> t, status |-> r.status,
                      ret |-> None, args |-> <<prefix, copy>>]
    /\ UNCHANGED heap

\* nx.union of two graphs with disjoint node names
nx_union(G, H, name) ==
    [name |-> name,
     nodes |-> G.nodes \o H.nodes,
     node |-> [n \in (DOMAIN G.node) \cup (DOMAIN H.node) |->
                 IF n \in DOMAIN G.node THEN G.node[n] ELSE H.node[n]],
     adj |-> [e \in (DOMAIN G.adj) \cup (DOMAIN H.adj) |->
                IF e \in DOMAIN G.adj THEN G.adj[e] ELSE H.adj[e]]]

\* a mutation of union: a graph union that does not refuse two graphs
\* with a node name in common
unionRunNoCollisionCheck(S, O, rename) ==
    LET name == S.nxgraph.name \o <<"_">> \o O.nxgraph.name
    IN  [status |-> "ok", S |-> S, O |-> O,
         N |-> Topology(name, nx_union(S.nxgraph, O.nxgraph, name), TRUE)]

\* Topology.union: the outcome, the two inputs as the call leaves them, and
\* the new topology
unionRun(S, O, rename) ==
    LET r1 == IF rename THEN relabel_graph(S.nxgraph, S.nxgraph.name)
              ELSE [status |-> "ok", G |-> S.nxgraph]
        S1 == IF r1.status = "ok" THEN [S EXCEPT !.nxgraph = r1.G] ELSE S
        r2 == IF rename THEN relabel_graph(O.nxgraph, O.nxgraph.name)
              ELSE [status |-> "ok", G |-> O.nxgraph]
        O1 == IF r2.status = "ok" THEN [O EXCEPT !.nxgraph = r2.G] ELSE O
        name == S1.nxgraph.name \o <<"_">> \o O1.nxgraph.name
    IN  IF r1.status # "ok" THEN [status |-> "error", S |-> S, O |-> O, N |-> NoTopo]
        ELSE IF r2.status # "ok" THEN [status |-> "error", S |-> S1, O |-> O, N |-> NoTopo]
        ELSE IF (DOMAIN S1.nxgraph.node) \cap (DOMAIN O1.nxgraph.node) # {}
        THEN [status |-> "error", S |-> S1, O |-> O1, N |-> NoTopo]
        ELSE [status |-> "ok", S |-> S1, O |-> O1,
              N |-> Topology(name, nx_union(S1.nxgraph, O1.nxgraph, name), TRUE)]

\* t3 = t1.union(t2, rename)
union(t1, t2, t3, rename) ==
    /\ t1 # t2
    /\ topos[t1] # NoTopo
    /\ topos[t2] # NoTopo
    /\ topos[t3] = NoTopo
    /\ \E r \in {unionRun(topos[t1], topos[t2], rename)} :
        /\ topos' = [topos EXCEPT ![t1] = r.S, ![t2] = r.O, ![t3] = r.N]
        /\ result' = [op |-> "union", t |-> t3, status |-> r.status, ret |-> None]
    /\ UNCHANGED heap

(***************************************************************************)
(* The program: its state after construction and its operations.           *)
(***************************************************************************)
TopoName(t) == IF t = 1 THEN <<"A">> ELSE <<"B">>

Init ==
    /\ topos = [t \in TopoIds |->
                  IF t = 3 THEN NoTopo ELSE Topology(TopoName(t), NoGraph, t = 1)]
    /\ heap = [t \in TopoIds |-> <<>>]
    /\ result = [op |-> "init", t |-> 0, status |-> "ok", ret |-> None]

NodeArgs(t) ==
    IF topos[t] = NoTopo THEN {}
    ELSE Range(topos[t].nxgraph.nodes) \cup UnknownNames

\* the calls of addHost/addSwitch/addRouter with a name out of names
NodeOps(t, names) ==
    \/ \E name \in names : addHost(t, name)
    \/ \E name \in names : addSwitch(t, name)
    \/ \E name \in names : addRouter(t, name)

\* every addLink call
LinkOps(t) ==
    \E node1 \in NodeArgs(t), node2 \in NodeArgs(t) :
        \E capacity \in Capacities, delay \in Delays :
            addLink(t, node1, node2, capacity, delay)

\* the addLink calls between two different names
DistinctLinkOps(t) ==
    \E node1 \in NodeArgs(t), node2 \in NodeArgs(t) :
        \E capacity \in Capacities, delay \in Delays :
            node1 # node2 /\ addLink(t, node1, node2, capacity, delay)

\* the addLink calls the documentation asks for: two different nodes of
\* the topology with no link yet, and a capacity and delay that parse
ProperLinkOps(t) ==
    \E node1 \in NodeArgs(t), node2 \in NodeArgs(t) :
        /\ node1 # node2
        /\ has_node(topos[t].nxgraph, node1)
        /\ has_node(topos[t].nxgraph, node2)
        /\ ~has_edge(topos[t].nxgraph, node1, node2)
        /\ addLink(t, node1, node2, "100mbps", "10ms")

\* node names only: one topology grown by addHost/addSwitch/addRouter
NextNames == NodeOps(1, ExplicitNames \cup {None})

SpecNames == Init /\ [][NextNames]_vars

\* one topology, hosts and switches, every addLink call
NextLinks ==
    \/ \E name \in ExplicitNames \cup {None} : addHost(1, name)
    \/ addSwitch(1, None)
    \/ LinkOps(1)

InitLinks ==
    /\ \E am \in BOOLEAN :
         topos = [t \in TopoIds |->
                    IF t = 1 THEN Topology(TopoName(t), NoGraph, am) ELSE NoTopo]
    /\ heap = [t \in TopoIds |-> <<>>]
    /\ result = [op |-> "init", t |-> 0, status |-> "ok", ret |-> None]

SpecLinks == InitLinks /\ [][NextLinks]_vars

\* the same, the two endpoints of a link always different names
NextDistinctLinks ==
    \/ \E name \in ExplicitNames \cup {None} : addHost(1, name)
    \/ addSwitch(1, None)
    \/ DistinctLinkOps(1)

SpecDistinctLinks == Init /\ [][NextDistinctLinks]_vars

\* the addLink calls with a capacity and delay that parse, between any
\* two names: repeated links, self-loops and unknown nodes included
PlainLinkOps(t) ==
    \E node1 \in NodeArgs(t), node2 \in NodeArgs(t) :
        addLink(t, node1, node2, "100mbps", "10ms")

\* one topology of auto-named hosts, switches and routers, linked and
\* then numbered by assignIPAddresses
NextAddr ==
    \/ addHost(1, None)
    \/ addSwitch(1, None)
    \/ addRouter(1, None)
    \/ PlainLinkOps(1)
    \/ \E prefix \in Prefixes : assignIPAddresses(1, prefix)

SpecAddr == Init /\ [][NextAddr]_vars

\* the same, built as the documentation asks
NextProperAddr ==
    \/ addHost(1, None)
    \/ addSwitch(1, None)
    \/ addRouter(1, None)
    \/ ProperLinkOps(1)
    \/ \E prefix \in Prefixes : assignIPAddresses(1, prefix)

SpecProperAddr == Init /\ [][NextProperAddr]_vars

\* two topologies: A of hosts, B of routers, linked as the documentation
\* asks; a third made from them by union or from A by serialize and
\* unserialize, and then built on
NextDerived ==
    \/ addHost(1, None)
    \/ ProperLinkOps(1)
    \/ addRouter(2, None)
    \/ \E rename \in BOOLEAN : union(1, 2, 3, rename)
    \/ roundTrip(1, 3)
    \/ addHost(3, None)
    \/ ProperLinkOps(3)

SpecDerived == Init /\ [][NextDerived]_vars

\* the reads of a link: getLink and getLinkInterfaces with any two names
LinkQueries(t) ==
    \/ \E node1 \in NodeArgs(t), node2 \in NodeArgs(t) : getLink(t, node1, node2)
    \/ \E node1 \in NodeArgs(t), node2 \in NodeArgs(t) : getLinkInterfaces(t, node1, node2)

\* one topology of hosts, linked as the documentation asks, and read
NextQuery ==
    \/ addHost(1, None)
    \/ ProperLinkOps(1)
    \/ LinkQueries(1)

SpecQuery == Init /\ [][NextQuery]_vars

\* one topology of hosts with every addLink call, and read
NextLinkQuery ==
    \/ addHost(1, None)
    \/ LinkOps(1)
    \/ LinkQueries(1)

SpecLinkQuery == Init /\ [][NextLinkQuery]_vars

\* the nodes whose addresses a caller sets and reads: the first host, or
\* a name that names no node
AddressNodes == {<<"h", "0">>} \cup UnknownNames

\* the calls of setInterfaceAddresses and getInterfaceAddresses
AddressOps(t) ==
    \/ \E node \in AddressNodes, interface \in InterfaceArgs :
         \E mac \in Macs, ip \in Ips, netmask \in Netmasks :
            setInterfaceAddresses(t, node, interface, mac, ip, netmask)
    \/ \E node \in AddressNodes, interface \in InterfaceArgs :
         getInterfaceAddresses(t, node, interface)

\* one topology of hosts, linked, its interfaces' addresses set and read
NextSet ==
    \/ addHost(1, None)
    \/ ProperLinkOps(1)
    \/ AddressOps(1)

SpecSet == Init /\ [][NextSet]_vars

\* two topologies, both with hosts, the second with routers too, linked as
\* the documentation asks, and their union without renaming
NextUnion ==
    \/ addHost(1, None)
    \/ ProperLinkOps(1)
    \/ addHost(2, None)
    \/ addRouter(2, None)
    \/ ProperLinkOps(2)
    \/ union(1, 2, 3, FALSE)

SpecUnion == Init /\ [][NextUnion]_vars

\* one topology of hosts with links, repeated links and self-loops, its
\* nodes renamed by addNodeLabelPrefix
NextPrefix ==
    \/ addHost(1, None)
    \/ PlainLinkOps(1)
    \/ \E prefix \in PrefixArgs, copy \in BOOLEAN : addNodeLabelPrefix(1, prefix, copy)

SpecPrefix == Init /\ [][NextPrefix]_vars

\* one topology of hosts and switches, linked, and the reading of its
\* serialization with one node damaged
NextMalformed ==
    \/ addHost(1, None)
    \/ addSwitch(1, None)
    \/ ProperLinkOps(1)
    \/ \E i \in 1 .. MaxNodes, damage \in Damages : unserializeDamaged(1, 3, i, damage)

SpecMalformed == Init /\ [][NextMalformed]_vars

\* node names a caller may choose that are also keys of a link's attributes
AttributeNames == {LABEL, CAPACITY, DELAY}

\* one topology of hosts, some named by the caller after a link attribute,
\* linked as the documentation asks
NextAttrNames ==
    \/ \E name \in AttributeNames \cup {None} : addHost(1, name)
    \/ ProperLinkOps(1)

SpecAttrNames == Init /\ [][NextAttrNames]_vars

(***************************************************************************)
(* What the properties below speak of.                                     *)
(***************************************************************************)
AddNodeOps == {"addHost", "addSwitch", "addRouter"}

NodesOf(t) == DOMAIN topos[t].nxgraph.node

LinksOf(t) == DOMAIN topos[t].nxgraph.adj

\* an edge that carries what a completed addLink gives a link
IsLink(d) == {LABEL, CAPACITY, DELAY} \subseteq DOMAIN d

\* the interfaces of the nodes of topology T, as <<node, interface name>>
InterfacesOf(T, H) ==
    UNION {{<<n, k>> : k \in DOMAIN nodeobj(H, T.nxgraph, n).interfaces} :
             n \in DOMAIN T.nxgraph.node}

IfaceOf(T, H, x) == nodeobj(H, T.nxgraph, x[1]).interfaces[x[2]]

EthName(j) == <<"e", "t", "h">> \o Str(j)

(***************************************************************************)
(* C2: whenever addHost, addSwitch, addRouter or addLink reports an error, *)
(* the topology is exactly as before the call: nodes, links, link          *)
(* attributes, the interfaces of every node and all counters.              *)
(***************************************************************************)
C2_ErrorLeavesTopologyUnchanged ==
    [][(result'.status = "error" /\ result'.op \in AddNodeOps \cup {"addLink"})
          => (topos' = topos /\ heap' = heap)]_vars

(***************************************************************************)
(* C3: addLink between two nodes that already have a link fails, in        *)
(* either order of the two names, and leaves the link's capacity, delay,   *)
(* label and endpoint-interface names as they were.                        *)
(***************************************************************************)
C3_DuplicateLinkRejected ==
    [][\A node1 \in NodeArgs(1), node2 \in NodeArgs(1) :
         \A capacity \in Capacities, delay \in Delays :
            ( /\ has_edge(topos[1].nxgraph, node1, node2)
              /\ IsLink(topos[1].nxgraph.adj[{node1, node2}])
              /\ addLink(1, node1, node2, capacity, delay) )
            => ( /\ result'.status = "error"
                 /\ topos'[1].nxgraph.adj = topos[1].nxgraph.adj )]_vars

(***************************************************************************)
(* C4: every link joins two distinct nodes of the topology, and names for  *)
(* each endpoint an interface of that endpoint.                            *)
(***************************************************************************)
C4_LinksJoinTwoDistinctNodes ==
    \A e \in LinksOf(1) :
        /\ Cardinality(e) = 2
        /\ e \subseteq NodesOf(1)
        /\ \A n \in e :
             n \in DOMAIN topos[1].nxgraph.adj[e]
                => topos[1].nxgraph.adj[e][n]
                     \in DOMAIN nodeobj(heap, topos[1].nxgraph, n).interfaces

(***************************************************************************)
(* C5: node names are unique; adding a node under an explicit name that is *)
(* taken fails, whatever the type, and adds nothing; an auto-generated     *)
(* name h<N>, s<N>, r<N> is a name the topology does not have, its N is at *)
(* least the type's counter, and the counter moves past it and never back. *)
(***************************************************************************)
NamesUnique(t) ==
    LET G == topos[t].nxgraph
    IN  /\ Cardinality(Range(G.nodes)) = Len(G.nodes)
        /\ DOMAIN G.node = Range(G.nodes)

AutoNamed(t, prefix, ctr, cls) ==
    /\ result'.status = "ok"
    /\ result'.ret \notin NodesOf(t)
    /\ \E k \in topos[t][ctr] .. (topos[t][ctr] + Cardinality(NodesOf(t))) :
         /\ result'.ret = prefix \o Str(k)
         /\ topos'[t][ctr] = k + 1
    /\ NodesOf(t) \cup {result'.ret} = DOMAIN topos'[t].nxgraph.node
    /\ topos'[t].nxgraph.node[result'.ret].type = cls
    /\ \A n \in NodesOf(t) : topos'[t].nxgraph.node[n] = topos[t].nxgraph.node[n]

TakenNameRejected(t) ==
    \A name \in ExplicitNames :
        ( /\ name \in NodesOf(t)
          /\ (addHost(t, name) \/ addSwitch(t, name) \/ addRouter(t, name)) )
        => (result'.status = "error" /\ topos' = topos /\ heap' = heap)

C5_NodeNamesUnique ==
    /\ [](NamesUnique(1))
    /\ [][ /\ TakenNameRejected(1)
           /\ addHost(1, None) => AutoNamed(1, <<"h">>, "hnum", "Host")
           /\ addSwitch(1, None) => AutoNamed(1, <<"s">>, "snum", "Switch")
           /\ addRouter(1, None) => AutoNamed(1, <<"r">>, "rnum", "Router")
           /\ topos'[1].hnum >= topos[1].hnum
           /\ topos'[1].snum >= topos[1].snum
           /\ topos'[1].rnum >= topos[1].rnum ]_vars

\* addHost() has skipped h0, the explicit name of a switch, and made h1
C5_Witness ==
    /\ result.op = "addHost"
    /\ result.status = "ok"
    /\ result.ret = <<"h", "1">>
    /\ topos[1].hnum = 2
    /\ <<"h", "0">> \in NodesOf(1)
    /\ topos[1].nxgraph.node[<<"h", "0">>].type = "Switch"

(***************************************************************************)
(* C6: with auto MAC assignment, the interfaces addLink creates carry the  *)
(* consecutive values of one counter: the first endpoint's the counter's   *)
(* value, the second endpoint's the next; the counter never decreases, so  *)
(* the MACs of all interfaces are pairwise distinct and are the values     *)
(* 1 .. counter-1, one interface each.                                     *)
(***************************************************************************)
MacsSequential(t) ==
    LET T == topos[t]
        ifs == InterfacesOf(T, heap)
    IN  T.auto_macs =>
          /\ Cardinality(ifs) = T.ifnum - 1
          /\ {IfaceOf(T, heap, x).ethaddr : x \in ifs} = {MacAddr(k) : k \in 1 .. (T.ifnum - 1)}

NewInterfaceMacs(t, node1, node2) ==
    LET T == topos[t]
        if1 == EthName(nodeobj(heap, T.nxgraph, node1).ifnum)
        if2 == EthName(nodeobj(heap, T.nxgraph, node2).ifnum + (IF node1 = node2 THEN 1 ELSE 0))
    IN  /\ topos'[t].ifnum = T.ifnum + 2
        /\ InterfacesOf(topos'[t], heap') = InterfacesOf(T, heap) \cup {<<node1, if1>>, <<node2, if2>>}
        /\ <<node1, if1>> \notin InterfacesOf(T, heap)
        /\ <<node2, if2>> \notin InterfacesOf(T, heap)
        /\ IfaceOf(topos'[t], heap', <<node1, if1>>).ethaddr = MacAddr(T.ifnum)
        /\ IfaceOf(topos'[t], heap', <<node2, if2>>).ethaddr = MacAddr(T.ifnum + 1)

C6_AutoMacsSequential ==
    /\ [](MacsSequential(1))
    /\ [][ /\ topos'[1].ifnum >= topos[1].ifnum
           /\ (topos[1].auto_macs /\ result'.op = "addLink" /\ result'.status = "ok")
                => \A node1 \in NodesOf(1), node2 \in NodesOf(1) :
                     \A capacity \in Capacities, delay \in Delays :
                        addLink(1, node1, node2, capacity, delay)
                           => NewInterfaceMacs(1, node1, node2) ]_vars

\* two addLink calls have succeeded: four interfaces, the counter at 5
C6_Witness ==
    /\ topos[1].auto_macs
    /\ topos[1].ifnum = 5
    /\ Cardinality(InterfacesOf(topos[1], heap)) = 4
    /\ Cardinality({e \in LinksOf(1) : IsLink(topos[1].nxgraph.adj[e])}) = 2
    /\ result.op = "addLink"
    /\ result.status = "ok"

(***************************************************************************)
(* C9: a successful assignIPAddresses(prefix) visits the links in the      *)
(* lexicographic order of their (nodeA, nodeB) pairs and the endpoints of  *)
(* a link first nodeA, then nodeB; the n-th Host or Router endpoint it     *)
(* visits gets the n-th usable address of the subnet, and the subnet's     *)
(* mask, on the interface the link names for it.  The addresses of         *)
(* different interfaces are therefore different and increase in visiting   *)
(* order; every interface a link names on a Host or Router has one; no     *)
(* interface of a Switch, and no other interface, is changed.              *)
(***************************************************************************)
IsNumbered(T, n) == T.nxgraph.node[n].type \in {"Host", "Router"}

\* the visits to a Host or Router: <<link pair, 1 or 2>>
NumberedVisits(T) ==
    {v \in edges(T.nxgraph) \X {1, 2} : IsNumbered(T, v[1][v[2]])}

VisitBefore(v, w) == PairLess(v[1], w[1]) \/ (v[1] = w[1] /\ v[2] < w[2])

VisitRank(T, v) == Cardinality({w \in NumberedVisits(T) : VisitBefore(w, v)}) + 1

VisitedInterface(T, v) ==
    <<v[1][v[2]], T.nxgraph.adj[{v[1][1], v[1][2]}][v[1][v[2]]]>>

\* the visits that reach interface x; the last of them decides its address
VisitsTo(T, x) == {v \in NumberedVisits(T) : VisitedInterface(T, v) = x}

LastRank(T, x) ==
    CHOOSE r \in {VisitRank(T, v) : v \in VisitsTo(T, x)} :
        \A v \in VisitsTo(T, x) : VisitRank(T, v) <= r

AddressesAssigned(t, prefix) ==
    LET T == topos[t]
        subnet == IPv4Network(prefix)
        visited == {VisitedInterface(T, v) : v \in NumberedVisits(T)}
    IN  /\ topos' = topos
        /\ InterfacesOf(T, heap') = InterfacesOf(T, heap)
        /\ \A x \in visited :
             /\ IfaceOf(T, heap', x).ipaddr = IntToIP(subnet.network + LastRank(T, x))
             /\ IfaceOf(T, heap', x).netmask = subnet.netmask
             /\ IfaceOf(T, heap', x).ethaddr = IfaceOf(T, heap, x).ethaddr
        /\ \A x \in visited, y \in visited :
             x # y => IfaceOf(T, heap', x).ipaddr # IfaceOf(T, heap', y).ipaddr
        /\ \A x \in InterfacesOf(T, heap) \ visited :
             IfaceOf(T, heap', x) = IfaceOf(T, heap, x)
        /\ \A x \in InterfacesOf(T, heap) :
             ~IsNumbered(T, x[1]) => IfaceOf(T, heap', x) = IfaceOf(T, heap, x)

C9_AddressesInSortedLinkOrder ==
    [][(result'.op = "assignIPAddresses" /\ result'.status = "ok")
          => \A prefix \in Prefixes :
                assignIPAddresses(1, prefix) => AddressesAssigned(1, prefix)]_vars

\* nodes added in the order s0, r0, h0 and linked s0-h0, then r0-h0: the
\* link (r0,h0) sorts first, so h0's second interface is numbered before
\* its first, and s0 is left alone
C9_Witness ==
    /\ result.op = "assignIPAddresses"
    /\ result.status = "ok"
    /\ topos[1].nxgraph.nodes = <<<<"s", "0">>, <<"r", "0">>, <<"h", "0">>>>
    /\ DOMAIN heap[1][1].interfaces = {EthName(0)}
    /\ DOMAIN heap[1][2].interfaces = {EthName(0)}
    /\ DOMAIN heap[1][3].interfaces = {EthName(0), EthName(1)}
    /\ heap[1][2].interfaces[EthName(0)].ipaddr = <<10, 0, 0, 1>>
    /\ heap[1][3].interfaces[EthName(1)].ipaddr = <<10, 0, 0, 2>>
    /\ heap[1][3].interfaces[EthName(0)].ipaddr = <<10, 0, 0, 3>>
    /\ heap[1][3].interfaces[EthName(0)].netmask = <<255, 0, 0, 0>>
    /\ heap[1][1].interfaces[EthName(0)].ipaddr = DefaultIpaddr

(***************************************************************************)
(* C10: when assignIPAddresses fails because the subnet has fewer usable   *)
(* addresses than there are Host and Router link interfaces, the address   *)
(* and mask of every interface are as before the call.                     *)
(***************************************************************************)
C10_ExhaustedSubnetAssignsNothing ==
    [][(result'.op = "assignIPAddresses" /\ result'.status = "error")
          => heap' = heap]_vars

(***************************************************************************)
(* C1: unserialize(serialize(t)) yields a topology with the node names and *)
(* node types of t, for every node the interface records (name, MAC, IP,   *)
(* netmask) it has in t, and the links of t with their capacity, delay,    *)
(* label and endpoint-interface names.                                     *)
(***************************************************************************)
SameNodes(t1, t2) ==
    /\ NodesOf(t1) = NodesOf(t2)
    /\ \A n \in NodesOf(t1) :
         /\ topos[t1].nxgraph.node[n].type = topos[t2].nxgraph.node[n].type
         /\ nodeobj(heap, topos[t1].nxgraph, n).cls = nodeobj(heap, topos[t2].nxgraph, n).cls

SameInterfaces(t1, t2) ==
    \A n \in NodesOf(t1) \cap NodesOf(t2) :
        nodeobj(heap, topos[t1].nxgraph, n).interfaces
            = nodeobj(heap, topos[t2].nxgraph, n).interfaces

SameLinks(t1, t2) == topos[t1].nxgraph.adj = topos[t2].nxgraph.adj

C1_RoundTripPreservesTopology ==
    (result.op = "unserialize")
        => /\ result.status = "ok"
           /\ SameNodes(1, 3)
           /\ SameInterfaces(1, 3)
           /\ SameLinks(1, 3)

(***************************************************************************)
(* C7: on a topology returned by union or by unserialize, a successful     *)
(* addLink gives the two interfaces it creates MACs that differ from each  *)
(* other and from the MAC of every interface already in that topology.     *)
(***************************************************************************)
MacOf(T, H, x) == IfaceOf(T, H, x).ethaddr

NewInterfaces(t) == InterfacesOf(topos'[t], heap') \ InterfacesOf(topos[t], heap)

C7_DerivedTopologyMacsUnique ==
    [][(result'.op = "addLink" /\ result'.t = 3 /\ result'.status = "ok")
          => /\ Cardinality(NewInterfaces(3)) = 2
             /\ \A x \in NewInterfaces(3) :
                  \A y \in InterfacesOf(topos'[3], heap') \ {x} :
                     MacOf(topos'[3], heap', x) # MacOf(topos'[3], heap', y)]_vars

(***************************************************************************)
(* C8: on every node object, those rebuilt by unserialize and those a      *)
(* union result shares included, the interfaces are eth0 .. eth<ifnum-1>,  *)
(* each recorded under its own name, so the name addInterface returns,     *)
(* eth<ifnum>, is above every index in use; no call removes or replaces    *)
(* an interface record.                                                    *)
(***************************************************************************)
\* the references to the node objects made so far
Allocated(H) == UNION {{[t |-> t, i |-> i] : i \in DOMAIN H[t]} : t \in TopoIds}

InterfaceNamesInOrder(node) ==
    /\ DOMAIN node.interfaces = {EthName(j) : j \in 0 .. (node.ifnum - 1)}
    /\ \A k \in DOMAIN node.interfaces : node.interfaces[k].name = k

InterfacesKept(old, new) ==
    /\ new.ifnum >= old.ifnum
    /\ DOMAIN old.interfaces \subseteq DOMAIN new.interfaces
    /\ \A k \in DOMAIN old.interfaces : new.interfaces[k] = old.interfaces[k]
    /\ Cardinality(DOMAIN new.interfaces)
         = Cardinality(DOMAIN old.interfaces) + (new.ifnum - old.ifnum)

C8_InterfaceNamesUnique ==
    /\ [](\A ref \in Allocated(heap) : InterfaceNamesInOrder(Deref(heap, ref)))
    /\ [][\A ref \in Allocated(heap) :
            /\ ref \in Allocated(heap')
            /\ InterfacesKept(Deref(heap, ref), Deref(heap', ref))]_vars

\* a node of topology 1 that a union carried into topology 3 with its
\* eth0, and that an addLink on topology 3 then gave eth1
C8_Witness ==
    /\ result.op = "addLink"
    /\ result.t = 3
    /\ result.status = "ok"
    /\ \E n \in NodesOf(3) :
         /\ topos[3].nxgraph.node[n].nodeobj.t = 1
         /\ nodeobj(heap, topos[3].nxgraph, n).ifnum = 2
         /\ DOMAIN nodeobj(heap, topos[3].nxgraph, n).interfaces = {EthName(0), EthName(1)}
         /\ \E e \in LinksOf(3) :
              /\ n \in e
              /\ IsLink(topos[3].nxgraph.adj[e])
              /\ topos[3].nxgraph.adj[e][n] = EthName(1)

(***************************************************************************)
(* C15: for a link between node1 and node2, getLinkInterfaces(node1,       *)
(* node2) returns the interface name the link records for node1 and then   *)
(* the one it records for node2.                                           *)
(***************************************************************************)
C15_LinkInterfacesInArgumentOrder ==
    (result.op = "getLinkInterfaces")
        => LET node1 == result.args[1]
               node2 == result.args[2]
               G == topos[1].nxgraph
           IN  (node1 # node2 /\ has_edge(G, node1, node2) /\ IsLink(G.adj[{node1, node2}]))
                  => /\ result.status = "ok"
                     /\ result.ret = <<G.adj[{node1, node2}][node1],
                                       G.adj[{node1, node2}][node2]>>

(***************************************************************************)
(* C16: once addLink(a, b, ...) has succeeded, getLink(a, b) and           *)
(* getLink(b, a) succeed and return the same attributes, with capacity,    *)
(* delay, label and an interface entry for either endpoint, in every       *)
(* later state.                                                            *)
(***************************************************************************)
LinkReadsAgree(T, a, b) ==
    /\ getLinkRun(T, a, b).status = "ok"
    /\ getLinkRun(T, b, a).status = "ok"
    /\ getLinkRun(T, a, b).ret = getLinkRun(T, b, a).ret
    /\ {LABEL, CAPACITY, DELAY, a, b} \subseteq DOMAIN getLinkRun(T, a, b).ret

C16_LinksUndirected ==
    /\ [](\A e \in LinksOf(1) :
            IsLink(topos[1].nxgraph.adj[e])
               => \A a \in e, b \in e : ({a, b} = e) => LinkReadsAgree(topos[1], a, b))
    /\ []((result.op = "getLink" /\ result.status = "ok")
            => result.ret = getLinkRun(topos[1], result.args[2], result.args[1]).ret)
    /\ [][ /\ \A e \in LinksOf(1) :
                IsLink(topos[1].nxgraph.adj[e])
                   => (e \in LinksOf(1)' /\ IsLink(topos'[1].nxgraph.adj[e]))
           /\ (result'.op = "addLink" /\ result'.status = "ok")
                => \A a \in NodesOf(1), b \in NodesOf(1) :
                     \A capacity \in Capacities, delay \in Delays :
                        addLink(1, a, b, capacity, delay)
                           => /\ IsLink(topos'[1].nxgraph.adj[{a, b}])
                              /\ LinkReadsAgree(topos'[1], a, b) ]_vars

\* a link read against the direction it was added in
C16_Witness ==
    /\ result.op = "getLink"
    /\ result.status = "ok"
    /\ result.args[1] # result.args[2]
    /\ <<result.args[2], result.args[1]>> \in edges(topos[1].nxgraph)
    /\ IsLink(result.ret)
    /\ result.ret[result.args[1]] # result.ret[result.args[2]]

(***************************************************************************)
(* C18: a successful setInterfaceAddresses(node, interface, mac, ip,       *)
(* netmask) leaves that interface with the supplied values in the          *)
(* supplied fields and the previous values in the omitted ones, as         *)
(* getInterfaceAddresses then reports; it changes no other interface, no   *)
(* node and no link; with an unknown node or interface it fails and        *)
(* changes nothing.                                                        *)
(***************************************************************************)
Supplied(value, previous) == IF value # None THEN value ELSE previous

OtherInterfacesKept(ref0, interface) ==
    /\ Allocated(heap') = Allocated(heap)
    /\ \A ref \in Allocated(heap) :
         /\ Deref(heap', ref).cls = Deref(heap, ref).cls
         /\ Deref(heap', ref).ifnum = Deref(heap, ref).ifnum
         /\ DOMAIN Deref(heap', ref).interfaces = DOMAIN Deref(heap, ref).interfaces
         /\ \A k \in DOMAIN Deref(heap, ref).interfaces :
              (ref # ref0 \/ k # interface)
                 => Deref(heap', ref).interfaces[k] = Deref(heap, ref).interfaces[k]

SetsOnlySuppliedFields(t, node, interface, mac, ip, netmask) ==
    IF has_node(topos[t].nxgraph, node)
       /\ interface \in DOMAIN nodeobj(heap, topos[t].nxgraph, node).interfaces
    THEN LET old == nodeobj(heap, topos[t].nxgraph, node).interfaces[interface] IN
         /\ result'.status = "ok"
         /\ topos' = topos
         /\ getInterfaceAddressesRun(topos'[t], heap', node, interface)
              = [status |-> "ok",
                 ret |-> <<Supplied(mac, old.ethaddr), Supplied(ip, old.ipaddr),
                           Supplied(netmask, old.netmask)>>]
         /\ nodeobj(heap', topos'[t].nxgraph, node).interfaces[interface].name = old.name
         /\ OtherInterfacesKept(topos[t].nxgraph.node[node].nodeobj, interface)
    ELSE /\ result'.status = "error"
         /\ topos' = topos
         /\ heap' = heap

C18_SetsOnlySuppliedFields ==
    [][ /\ (result'.op = "setInterfaceAddresses")
             => SetsOnlySuppliedFields(1, result'.args[1], result'.args[2],
                                       result'.args[3], result'.args[4], result'.args[5])
        /\ ( /\ result.op = "setInterfaceAddresses"
             /\ result.status = "ok"
             /\ result'.op = "getInterfaceAddresses"
             /\ result'.args = <<result.args[1], result.args[2]>> )
             => /\ result'.status = "ok"
                /\ result.args[3] # None => result'.ret[1] = result.args[3]
                /\ result.args[4] # None => result'.ret[2] = result.args[4]
                /\ result.args[5] # None => result'.ret[3] = result.args[5] ]_vars

\* the address alone set on the second interface of a host: its MAC and
\* the first interface keep what addLink gave them
C18_Witness ==
    /\ result.op = "setInterfaceAddresses"
    /\ result.status = "ok"
    /\ result.args = <<<<"h", "0">>, EthName(1), None, <<10, 9, 9, 9>>, None>>
    /\ LET ifs == nodeobj(heap, topos[1].nxgraph, <<"h", "0">>).interfaces IN
         /\ ifs[EthName(1)].ipaddr = <<10, 9, 9, 9>>
         /\ ifs[EthName(1)].ethaddr # DefaultEthaddr
         /\ ifs[EthName(1)].netmask = DefaultNetmask
         /\ ifs[EthName(0)].ipaddr = DefaultIpaddr

(***************************************************************************)
(* C11: union(other, rename) leaves both inputs as they were, for either   *)
(* value of rename: the same node names, node labels, links and link       *)
(* endpoint-interface mappings after the call as before it.                *)
(***************************************************************************)
GraphKept(t) ==
    /\ topos'[t].nxgraph.nodes = topos[t].nxgraph.nodes
    /\ topos'[t].nxgraph.node = topos[t].nxgraph.node
    /\ topos'[t].nxgraph.adj = topos[t].nxgraph.adj

C11_UnionLeavesInputsUnchanged ==
    [][(result'.op = "union") => (GraphKept(1) /\ GraphKept(2))]_vars

(***************************************************************************)
(* C12: without renaming, the union of two topologies with no node name    *)
(* in common is a new topology with the nodes and the links of both: the   *)
(* counts are the sums, and every node type, interface and link attribute  *)
(* is carried over; the union of two topologies with a node name in        *)
(* common fails and makes no topology.                                     *)
(***************************************************************************)
CarriedOver(t, n) ==
    /\ topos'[3].nxgraph.node[n].type = topos[t].nxgraph.node[n].type
    /\ topos'[3].nxgraph.node[n].label = topos[t].nxgraph.node[n].label
    /\ nodeobj(heap', topos'[3].nxgraph, n) = nodeobj(heap, topos[t].nxgraph, n)

DisjointUnion ==
    /\ result'.status = "ok"
    /\ topos'[3] # NoTopo
    /\ NodesOf(3)' = NodesOf(1) \cup NodesOf(2)
    /\ Cardinality(NodesOf(3)') = Cardinality(NodesOf(1)) + Cardinality(NodesOf(2))
    /\ Len(topos'[3].nxgraph.nodes) = Cardinality(NodesOf(3)')
    /\ LinksOf(3)' = LinksOf(1) \cup LinksOf(2)
    /\ Cardinality(LinksOf(3)') = Cardinality(LinksOf(1)) + Cardinality(LinksOf(2))
    /\ \A t \in {1, 2} :
         /\ \A n \in NodesOf(t) : CarriedOver(t, n)
         /\ \A e \in LinksOf(t) : topos'[3].nxgraph.adj[e] = topos[t].nxgraph.adj[e]

C12_UnionOfDisjointTopologies ==
    [][(result'.op = "union" /\ topos[3] = NoTopo)
          => IF NodesOf(1) \cap NodesOf(2) = {}
             THEN DisjointUnion
             ELSE result'.status = "error" /\ topos'[3] = NoTopo]_vars

\* the union of two topologies of two linked nodes each
C12_Witness ==
    /\ result.op = "union"
    /\ result.status = "ok"
    /\ Cardinality(NodesOf(1)) = 2
    /\ Cardinality(NodesOf(2)) = 2
    /\ Cardinality(LinksOf(1)) = 1
    /\ Cardinality(LinksOf(2)) = 1
    /\ Cardinality(NodesOf(3)) = 4
    /\ Cardinality(LinksOf(3)) = 2

(***************************************************************************)
(* C19: the topology union returns shares nothing with its inputs: a       *)
(* later call on the result leaves every node's interfaces and their       *)
(* addresses in both inputs unchanged, and a later call on an input        *)
(* leaves those of the result unchanged.                                   *)
(***************************************************************************)
NodeObjectsKept(t) ==
    \A n \in NodesOf(t) :
        /\ n \in NodesOf(t)'
        /\ nodeobj(heap', topos'[t].nxgraph, n) = nodeobj(heap, topos[t].nxgraph, n)

C19_UnionResultIndependent ==
    [][(topos[3] # NoTopo /\ result'.op = "addLink")
          => /\ (result'.t = 3) => (NodeObjectsKept(1) /\ NodeObjectsKept(2))
             /\ (result'.t \in {1, 2}) => NodeObjectsKept(3)]_vars

(***************************************************************************)
(* C13: addNodeLabelPrefix(prefix) renames every node x to <prefix>_x,     *)
(* the prefix being the topology's name when none is given; every link     *)
(* joins the renamed nodes and records their interfaces under the new      *)
(* names; node types, interfaces, capacity, delay and label stay, and so   *)
(* do the number of nodes and of links.                                    *)
(***************************************************************************)
Prefixed(prefix, x) ==
    (IF prefix = None THEN topos[1].nxgraph.name ELSE prefix) \o <<"_">> \o x

LinkRenamed(prefix, e) ==
    LET old == topos[1].nxgraph.adj[e]
        new == topos'[1].nxgraph.adj[{Prefixed(prefix, x) : x \in e}]
    IN  /\ \A k \in {LABEL, CAPACITY, DELAY} \cap DOMAIN old :
             k \in DOMAIN new /\ new[k] = old[k]
        /\ \A x \in e \cap DOMAIN old :
             Prefixed(prefix, x) \in DOMAIN new /\ new[Prefixed(prefix, x)] = old[x]
        /\ Cardinality(DOMAIN new) = Cardinality(DOMAIN old)

NodesRenamed(prefix) ==
    /\ result'.status = "ok"
    /\ NodesOf(1)' = {Prefixed(prefix, x) : x \in NodesOf(1)}
    /\ Cardinality(NodesOf(1)') = Cardinality(NodesOf(1))
    /\ \A x \in NodesOf(1) :
         /\ topos'[1].nxgraph.node[Prefixed(prefix, x)].type = topos[1].nxgraph.node[x].type
         /\ topos'[1].nxgraph.node[Prefixed(prefix, x)].nodeobj = topos[1].nxgraph.node[x].nodeobj
    /\ heap' = heap
    /\ LinksOf(1)' = {{Prefixed(prefix, x) : x \in e} : e \in LinksOf(1)}
    /\ Cardinality(LinksOf(1)') = Cardinality(LinksOf(1))
    /\ \A e \in LinksOf(1) : LinkRenamed(prefix, e)

C13_PrefixRenamesNodesAndLinks ==
    [][(result'.op = "addNodeLabelPrefix" /\ ~result'.args[2])
          => NodesRenamed(result'.args[1])]_vars

(***************************************************************************)
(* C14: addNodeLabelPrefix with the copy flag succeeds and leaves the      *)
(* topology it is called on with its node names and link mappings;         *)
(* without the flag, a successful call renames the nodes of the topology   *)
(* it is called on.                                                        *)
(***************************************************************************)
C14_PrefixCopyLeavesOriginal ==
    [][(result'.op = "addNodeLabelPrefix" /\ NodesOf(1) # {})
          => IF result'.args[2]
             THEN result'.status = "ok" /\ topos' = topos /\ heap' = heap
             ELSE (result'.status = "ok") => (NodesOf(1)' # NodesOf(1))]_vars

(***************************************************************************)
(* C17: unserialize fails, and makes no topology, whenever a serialized    *)
(* node lacks its node object, its node type or its interfaces, or has a   *)
(* node type other than Host, Switch and Router.                           *)
(***************************************************************************)
C17_MalformedTopologyRejected ==
    (result.op = "unserialize" /\ result.args[2] \in Damages)
        => (result.status = "error" /\ topos[3] = NoTopo)

(***************************************************************************)
(* C20: after a successful addLink(a, b, capacity, delay) the link's       *)
(* capacity, delay and label are the values derived from the two           *)
(* arguments, and its entries for a and b are the names of the two         *)
(* interfaces the call created, whatever the nodes are called.             *)
(***************************************************************************)
LinkAsGiven(a, b, capacity, delay) ==
    LET d == topos'[1].nxgraph.adj[{a, b}] IN
    /\ {LABEL, CAPACITY, DELAY, a, b} \subseteq DOMAIN d
    /\ d[CAPACITY] = unhumanize_capacity(capacity)
    /\ d[DELAY] = unhumanize_delay(delay)
    /\ d[LABEL] = <<humanize_capacity(unhumanize_capacity(capacity)),
                    humanize_delay(unhumanize_delay(delay))>>
    /\ d[a] = EthName(nodeobj(heap, topos[1].nxgraph, a).ifnum)
    /\ d[b] = EthName(nodeobj(heap, topos[1].nxgraph, b).ifnum)

C20_LinkAttributesNotOverwritten ==
    [][(result'.op = "addLink" /\ result'.status = "ok")
          => \A a \in NodesOf(1), b \in NodesOf(1) :
                (a # b /\ addLink(1, a, b, "100mbps", "10ms"))
                   => LinkAsGiven(a, b, "100mbps", "10ms")]_vars

====
